---- MODULE Spec2Model ----
(***************************************************************************)
(* weekly_podiums.py: ZwiftPower team results -> Discord weekly podiums.   *)
(*                                                                         *)
(* One run of main() is modelled as a sequence of steps: the team page     *)
(* fetch with the three loads, one step per iteration of the filter loop,  *)
(* and the final cache save / post / ledger commit.  The two JSON files    *)
(* persist between runs.  Instants are whole hours (UTC) since an epoch    *)
(* that is a UTC midnight.                                                 *)
(***************************************************************************)
EXTENDS Integers, Sequences, FiniteSets, TLC

\* ------------------------------------------------------------------ bounds
MaxRows == 2          \* rows of the team page
MaxRuns == 2          \* runs of main()
NowStart == 177       \* instant of the first run: day 7, 09:00 UTC
RunInterval == 24     \* hours between two runs

\* ------------------------------------------------------- program constants
BASE == "https://zwiftpower.com"

\* Europe/Helsinki in summer time (EEST), hours east of UTC
HkiOffset == 3

ALLOWED_EVENT_TYPES ==
    {"race", "time trial", "tt", "road race", "criterium", "crit", "scratch"}

DENY_EVENT_TYPES ==
    {"group ride", "workout", "group workout", "training", "pace partner",
     "social ride", "fondo", "tour", "badge hunt"}

\* ------------------------------------------------------------ small helpers
Put(f, k, v) == [x \in (DOMAIN f) \cup {k} |-> IF x = k THEN v ELSE f[x]]

EmptyMap == [x \in {} |-> ""]

Range(s) == {s[i] : i \in DOMAIN s}

SeqsUpTo(S, n) == UNION {[1..k -> S] : k \in 0..n}

\* ---------------------------------------------------------- the team page
\* A table row as parse_team_results sees it:
\*   ntds          number of <td> cells
\*   pos           value of the first all-digits cell, 0 when there is none
\*   dt_kind       "none": no date-looking cell; "bad": one that no format
\*                 parses; "ok": one that parses to the instant `when`
\*   a_kind        the first <a href> of the row: "none", "event" (href holds
\*                 events.php) or "other"
\*   has_profile   the row holds a link to profile.php?z=<digits>
BaseRow ==
    [ntds |-> 4, pos |-> 1, dt_kind |-> "ok", when |-> 100,
     a_kind |-> "event", ev_name |-> "Race One", href |-> "events.php?zid=1",
     has_profile |-> TRUE, profile_text |-> "Alice", cat |-> "A"]

\* The rows a team page is made of: a podium of this week, a podium of
\* another event dated 20:00 UTC (23:00 in Helsinki) of day 0, a fourth place,
\* and a row whose first link is not an event link.
RowSamples ==
    { BaseRow,
      [BaseRow EXCEPT !.ev_name = "Race Two", !.href = "events.php?zid=2",
                      !.when = 20],
      [BaseRow EXCEPT !.pos = 4],
      [BaseRow EXCEPT !.a_kind = "other"] }

Pages == SeqsUpTo(RowSamples, MaxRows)

\* Text of an event page: the set of phrases that occur in it.
EventTexts == { {"race"}, {"workout"} }

IgnoreLists == { {}, {"Alice"} }

\* ------------------------------------------------------ parse_team_results
ParseRow(tr) ==
    IF tr.ntds < 4 THEN <<>>
    ELSE IF tr.pos = 0 THEN <<>>
    ELSE IF tr.dt_kind = "none" THEN <<>>
    ELSE IF tr.a_kind # "event" THEN <<>>
    ELSE IF tr.dt_kind # "ok" THEN <<>>
    ELSE << [event    |-> tr.ev_name,
             date     |-> tr.when,
             rider    |-> IF tr.has_profile /\ tr.profile_text # ""
                          THEN tr.profile_text ELSE "Unknown",
             pos      |-> tr.pos,
             category |-> IF tr.cat # "" THEN tr.cat ELSE "?",
             link     |-> BASE \o "/" \o tr.href] >>

RECURSIVE parse_team_results(_)
parse_team_results(rows) ==
    IF rows = <<>> THEN <<>>
    ELSE ParseRow(Head(rows)) \o parse_team_results(Tail(rows))


\* ------------------------------------------------------------------- fetch
\* What the server does with one GET: the request raises (connection error,
\* timeout), answers with a status >= 400, serves the login page, or serves
\* a page with the given text.
Response(kind, text) == [kind |-> kind, text |-> text]

EventResponses ==
    { Response("raise", {}), Response("http_error", {}) }
    \cup { Response("ok", t) : t \in EventTexts }

\* fetch() returns None for a status >= 400 and for the login page
FetchReturnsNone(resp) == resp.kind \in {"http_error", "login"}

\* --------------------------------------------- event type detection & cache
\* The keywords that are substrings of a phrase
Keywords(phrase) ==
    CASE phrase = "group workout" -> {"group workout", "workout"}
      [] phrase = "road race"     -> {"road race", "race"}
      [] phrase = "criterium"     -> {"criterium", "crit"}
      [] OTHER                    -> {phrase}

Occurs(kw, txt) == \E phrase \in txt : kw \in Keywords(phrase)

_normalize_event_type(text) ==
    CASE text = "time-trial"  -> "time trial"
      [] text = "tt race"     -> "time trial"
      [] text = "Time Trial"  -> "time trial"
      [] text = " Race "      -> "race"
      [] text = "Workout"     -> "workout"
      [] OTHER                -> text

\* The tokens detect_event_type_from_html may return for a page text: the
\* deny keywords are tried in the iteration order of a Python set of strings,
\* which differs from process to process, so any deny keyword that occurs
\* may be the one returned.
detect_event_type_from_html(txt) ==
    LET denied == {kw \in DENY_EVENT_TYPES : Occurs(kw, txt)} IN
    IF denied # {} THEN denied
    ELSE IF Occurs("time trial", txt) \/ Occurs("tt", txt) THEN {"time trial"}
    ELSE IF Occurs("criterium", txt) \/ Occurs("crit", txt) THEN {"crit"}
    ELSE IF Occurs("race", txt) \/ Occurs("road race", txt)
            \/ Occurs("scratch", txt) THEN {"race"}
    ELSE IF Occurs("group ride", txt) \/ Occurs("social ride", txt)
         THEN {"group ride"}
    ELSE IF Occurs("workout", txt) \/ Occurs("group workout", txt)
            \/ Occurs("training", txt) THEN {"workout"}
    ELSE IF Occurs("pace partner", txt) THEN {"pace partner"}
    ELSE IF Occurs("fondo", txt) THEN {"fondo"}
    ELSE IF Occurs("tour", txt) THEN {"tour"}
    ELSE IF Occurs("badge hunt", txt) THEN {"badge hunt"}
    ELSE {"unknown"}

\* The tokens get_event_type may compute on a cache miss when the request
\* does not raise.
FetchedEventTypes(resp) ==
    IF FetchReturnsNone(resp) \/ resp.text = {}
    THEN {_normalize_event_type("unknown")}
    ELSE {_normalize_event_type(t) : t \in detect_event_type_from_html(resp.text)}

\* fail-open variant: whatever is not denied is let through
is_allowed_event_type_FailOpen(etype) ==
    _normalize_event_type(etype) \notin DENY_EVENT_TYPES

is_allowed_event_type(etype) ==
    LET e == _normalize_event_type(etype) IN
    IF e \in DENY_EVENT_TYPES THEN FALSE
    ELSE IF e \in ALLOWED_EVENT_TYPES THEN TRUE
    ELSE FALSE

\* EVENT_TYPE_CACHE_FILE: the mapping event_type_cache.json holds, empty when
\* the file is missing.
_load_event_type_cache(file, readOk) == IF readOk THEN file ELSE EmptyMap

_save_event_type_cache(cache, file, writeOk) == IF writeOk THEN cache ELSE file

\* ------------------------------------------------------------ dedup ledger
\* STATE_FILE: whether weekly_seen.json exists, and the identities it lists.
load_seen(file, readOk) == IF file.exists /\ readOk THEN file.ids ELSE {}

save_seen(s, file, writeOk) ==
    IF writeOk THEN [exists |-> TRUE, ids |-> s] ELSE file

\* ----------------------------------------------------------- main: filters
Uid(r) ==
    r.link \o "|" \o r.rider \o "|" \o ToString(r.pos) \o "|" \o ToString(r.date)

week_ago(t) == t - 7 * 24

PassesWindow(r, t) == ~(r.date < week_ago(t))

PassesRank(r) == ~(r.pos > 3)

PassesIgnore(r, names) == ~(r.rider \in names)

\* variant without the dedup test
AlreadySeen_Never(uid, ledger) == FALSE

AlreadySeen(uid, ledger) == uid \in ledger

ShouldPost(pods, always) == pods # <<>> \/ always

\* variant that commits after every successful post
ShouldCommit_Always(pods) == TRUE

ShouldCommit(pods) == pods # <<>>

\* --------------------------------------------------- build_discord_embed
LocalDate(t) == (t + HkiOffset) \div 24

build_discord_embed(pods, t) ==
    [week_start |-> LocalDate(t - 6 * 24),
     week_end   |-> LocalDate(t),
     items      |-> pods]

NoEmbed == [week_start |-> 0, week_end |-> 0, items |-> <<>>]


\* ------------------------------------------------------------------- state
VARIABLES
    COOKIE,                 \* ZWIFTPOWER_COOKIE is set
    ALWAYS_POST,            \* ALWAYS_POST=1
    STATE_FILE,             \* weekly_seen.json
    EVENT_TYPE_CACHE_FILE,  \* event_type_cache.json: link -> token
    runs,                   \* runs of main() started so far
    now,                    \* the clock read by the current run
    pc,                     \* "idle" between runs, "loop" inside the for
                            \* loop, "done" when main() has ended
    outcome,                \* how the last run ended
    all_results, idx,       \* the parsed records and the loop position
    seen, ignore_names, etype_cache, checked_event_types,
    podiums, new_ids,
    embed,                  \* the embed handed to post_to_discord, if any
    html,                   \* a document handed to parse_team_results
    row_of,                 \* for each record parsed from html, its row
    \* history of the current run
    ledger0,                \* STATE_FILE when the run started
    cache0,                 \* the cache as loaded when the run started
    window_passed,          \* loop positions that passed the window filter
    fetched,                \* event link -> requests sent for it in this run
    \* history across runs
    io_ok,                  \* every ledger read and write so far succeeded
    delivered,              \* identity -> notifications delivered with it,
                            \* kept as long as io_ok
    retry                   \* records accepted by the previous run, if its post failed

vars ==
    <<COOKIE, ALWAYS_POST, STATE_FILE, EVENT_TYPE_CACHE_FILE, runs, now, pc,
      outcome, all_results, idx, seen, ignore_names, etype_cache,
      checked_event_types, podiums, new_ids, embed, html, ledger0, cache0,
      window_passed, fetched, io_ok, delivered, retry, row_of>>

config == <<COOKIE, ALWAYS_POST, row_of>>
files == <<STATE_FILE, EVENT_TYPE_CACHE_FILE>>
Init ==
    /\ COOKIE \in BOOLEAN
    /\ ALWAYS_POST \in BOOLEAN
    /\ STATE_FILE = [exists |-> FALSE, ids |-> {}]
    /\ EVENT_TYPE_CACHE_FILE = EmptyMap
    /\ runs = 0
    /\ now = NowStart
    /\ pc = "idle"
    /\ outcome = "none"
    /\ all_results = <<>>
    /\ idx = 1
    /\ seen = {}
    /\ ignore_names = {}
    /\ etype_cache = EmptyMap
    /\ checked_event_types = EmptyMap
    /\ podiums = <<>>
    /\ new_ids = {}
    /\ embed = NoEmbed
    /\ html = <<>>
    /\ row_of = <<>>
    /\ ledger0 = STATE_FILE
    /\ cache0 = EmptyMap
    /\ window_passed = {}
    /\ fetched = EmptyMap
    /\ io_ok = TRUE
    /\ delivered = EmptyMap
    /\ retry = {}

\* ------------------------------------------------------------ main: start
\* A new process: the clock is read, nothing is in memory yet.
BeginRun(results, ledger, names, cache) ==
    /\ pc = "idle"
    /\ runs < MaxRuns
    /\ runs' = runs + 1
    /\ now' = NowStart + RunInterval * runs
    /\ all_results' = results
    /\ idx' = 1
    /\ seen' = ledger
    /\ ignore_names' = names
    /\ etype_cache' = cache
    /\ cache0' = cache
    /\ checked_event_types' = EmptyMap
    /\ podiums' = <<>>
    /\ new_ids' = {}
    /\ embed' = NoEmbed
    /\ ledger0' = STATE_FILE
    /\ window_passed' = {}
    /\ fetched' = EmptyMap

\* if not COOKIE: raise SystemExit
MainNoCookie ==
    /\ ~COOKIE
    /\ BeginRun(<<>>, {}, {}, EmptyMap)
    /\ pc' = "done"
    /\ outcome' = "no_cookie"
    /\ retry' = {}
    /\ UNCHANGED <<config, files, html, io_ok, delivered>>

\* fetch(TEAM_URL) returns None: status >= 400 or the login page
MainFetchFailed ==
    /\ COOKIE
    /\ BeginRun(<<>>, {}, {}, EmptyMap)
    /\ pc' = "done"
    /\ outcome' = "fetch_failed"
    /\ retry' = {}
    /\ UNCHANGED <<config, files, html, io_ok, delivered>>

\* requests.get raises inside fetch(TEAM_URL): nothing catches it
MainFetchRaises ==
    /\ COOKIE
    /\ BeginRun(<<>>, {}, {}, EmptyMap)
    /\ pc' = "done"
    /\ outcome' = "crashed"
    /\ retry' = {}
    /\ UNCHANGED <<config, files, html, io_ok, delivered>>

\* The team page is fetched and parsed; ledger, ignore list and cache load.
MainFetched ==
    /\ COOKIE
    /\ pc = "idle"
    /\ \E page \in Pages, names \in IgnoreLists,
          readOk \in BOOLEAN, cacheReadOk \in BOOLEAN :
         /\ readOk \/ STATE_FILE.exists
         /\ cacheReadOk \/ EVENT_TYPE_CACHE_FILE # EmptyMap
         /\ BeginRun(parse_team_results(page),
                     load_seen(STATE_FILE, readOk), names,
                     _load_event_type_cache(EVENT_TYPE_CACHE_FILE, cacheReadOk))
         /\ io_ok' = (io_ok /\ readOk)
    /\ delivered' = IF io_ok' THEN delivered ELSE EmptyMap
    /\ pc' = "loop"
    /\ outcome' = "running"
    /\ UNCHANGED <<config, files, html, retry>>

\* ------------------------------------------------------- main: the for loop
InLoop == pc = "loop" /\ idx <= Len(all_results)

Row == all_results[idx]

PassesFirstFilters(r) ==
    PassesWindow(r, now) /\ PassesRank(r) /\ PassesIgnore(r, ignore_names)

NoteWindow ==
    window_passed' =
        IF PassesWindow(Row, now) THEN window_passed \cup {idx} ELSE window_passed

\* lines 404-409: the record is outside the window, not a podium, or ignored
RowSkipped ==
    /\ InLoop
    /\ ~PassesFirstFilters(Row)
    /\ idx' = idx + 1
    /\ NoteWindow
    /\ UNCHANGED <<config, files, runs, now, pc, outcome, all_results, seen,
                   ignore_names, etype_cache, checked_event_types, podiums,
                   new_ids, embed, html, ledger0, cache0, fetched, io_ok,
                   delivered, retry>>

\* The event type is needed from the network: not remembered in this run and
\* not in the cache.
NeedsFetch(link) ==
    /\ link \notin DOMAIN checked_event_types
    /\ link \notin DOMAIN etype_cache

\* lines 418-427, once the event type is known
Decide(r, etype) ==
    IF is_allowed_event_type(etype) /\ ~AlreadySeen(Uid(r), seen)
    THEN /\ podiums' = Append(podiums, r)
         /\ new_ids' = new_ids \cup {Uid(r)}
    ELSE UNCHANGED <<podiums, new_ids>>

\* The event type comes from checked_event_types or from the cache: no request
RowKnownEvent ==
    /\ InLoop
    /\ PassesFirstFilters(Row)
    /\ ~NeedsFetch(Row.link)
    /\ LET link == Row.link
           etype == IF link \in DOMAIN checked_event_types
                    THEN checked_event_types[link]
                    ELSE etype_cache[link]
       IN /\ checked_event_types' = Put(checked_event_types, link, etype)
          /\ Decide(Row, etype)
    /\ idx' = idx + 1
    /\ NoteWindow
    /\ UNCHANGED <<config, files, runs, now, pc, outcome, all_results, seen,
                   ignore_names, etype_cache, embed, html, ledger0, cache0,
                   fetched, io_ok, delivered, retry>>

CountFetch(link) ==
    fetched' = Put(fetched, link,
                   IF link \in DOMAIN fetched THEN fetched[link] + 1 ELSE 1)

\* get_event_type misses the cache and fetch() returns: the token is cached
RowFetchedEvent ==
    /\ InLoop
    /\ PassesFirstFilters(Row)
    /\ NeedsFetch(Row.link)
    /\ \E resp \in EventResponses :
         /\ resp.kind # "raise"
         /\ \E etype \in FetchedEventTypes(resp) :
              /\ etype_cache' = Put(etype_cache, Row.link, etype)
              /\ checked_event_types' = Put(checked_event_types, Row.link, etype)
              /\ Decide(Row, etype)
    /\ CountFetch(Row.link)
    /\ idx' = idx + 1
    /\ NoteWindow
    /\ UNCHANGED <<config, files, runs, now, pc, outcome, all_results, seen,
                   ignore_names, embed, html, ledger0, cache0, io_ok,
                   delivered, retry>>

\* get_event_type misses the cache and requests.get raises: the exception
\* leaves get_event_type and main, the process ends
RowFetchRaises ==
    /\ InLoop
    /\ PassesFirstFilters(Row)
    /\ NeedsFetch(Row.link)
    /\ \E resp \in EventResponses : resp.kind = "raise"
    /\ CountFetch(Row.link)
    /\ NoteWindow
    /\ pc' = "done"
    /\ outcome' = "crashed_in_loop"
    /\ retry' = {}
    /\ UNCHANGED <<config, files, runs, now, all_results, idx, seen,
                   ignore_names, etype_cache, checked_event_types, podiums,
                   new_ids, embed, html, ledger0, cache0, io_ok, delivered>>

\* ------------------------------------------------- main: save, post, commit
LoopDone == pc = "loop" /\ idx > Len(all_results)

SaveCache ==
    \E writeOk \in BOOLEAN :
        EVENT_TYPE_CACHE_FILE' =
            _save_event_type_cache(etype_cache, EVENT_TYPE_CACHE_FILE, writeOk)

\* nothing accepted and ALWAYS_POST off
FinishNoPost ==
    /\ LoopDone
    /\ SaveCache
    /\ ~ShouldPost(podiums, ALWAYS_POST)
    /\ pc' = "done"
    /\ outcome' = "no_post"
    /\ retry' = {}
    /\ UNCHANGED <<config, STATE_FILE, runs, now, all_results, idx, seen,
                   ignore_names, etype_cache, checked_event_types, podiums,
                   new_ids, embed, html, ledger0, cache0, window_passed,
                   fetched, io_ok, delivered>>

\* variant that marks the records seen although the post failed
FinishPostFailed_Commits ==
    /\ LoopDone
    /\ SaveCache
    /\ ShouldPost(podiums, ALWAYS_POST)
    /\ embed' = build_discord_embed(podiums, now)
    /\ pc' = "done"
    /\ outcome' = "post_failed"
    /\ retry' = Range(podiums)
    /\ seen' = seen \cup new_ids
    /\ STATE_FILE' = save_seen(seen', STATE_FILE, TRUE)
    /\ UNCHANGED <<config, runs, now, all_results, idx, html,
                   ignore_names, etype_cache, checked_event_types, podiums,
                   new_ids, ledger0, cache0, window_passed, fetched,
                   io_ok, delivered>>

\* post_to_discord raises (no webhook, status >= 300, network): return
FinishPostFailed ==
    /\ LoopDone
    /\ SaveCache
    /\ ShouldPost(podiums, ALWAYS_POST)
    /\ embed' = build_discord_embed(podiums, now)
    /\ pc' = "done"
    /\ outcome' = "post_failed"
    /\ retry' = Range(podiums)
    /\ UNCHANGED <<config, STATE_FILE, runs, now, all_results, idx, seen,
                   ignore_names, etype_cache, checked_event_types, podiums,
                   new_ids, html, ledger0, cache0, window_passed, fetched,
                   io_ok, delivered>>

Deliver(ids) ==
    [u \in (DOMAIN delivered) \cup ids |->
        IF u \in DOMAIN delivered
        THEN (IF u \in ids THEN delivered[u] + 1 ELSE delivered[u])
        ELSE 1]

\* post_to_discord returns; the ledger is committed when records were posted
FinishPosted ==
    /\ LoopDone
    /\ SaveCache
    /\ ShouldPost(podiums, ALWAYS_POST)
    /\ embed' = build_discord_embed(podiums, now)
    /\ IF ShouldCommit(podiums)
       THEN \E writeOk \in BOOLEAN :
              /\ seen' = seen \cup new_ids
              /\ STATE_FILE' = save_seen(seen', STATE_FILE, writeOk)
              /\ io_ok' = (io_ok /\ writeOk)
       ELSE UNCHANGED <<seen, STATE_FILE, io_ok>>
    /\ delivered' = IF io_ok' THEN Deliver({Uid(r) : r \in Range(podiums)})
                    ELSE EmptyMap
    /\ pc' = "done"
    /\ outcome' = "posted"
    /\ retry' = {}
    /\ UNCHANGED <<config, runs, now, all_results, idx, ignore_names,
                   etype_cache, checked_event_types, podiums, new_ids, html,
                   ledger0, cache0, window_passed, fetched>>

\* The process ends: its memory is gone, the files and the clock stay.
Exit ==
    /\ pc = "done"
    /\ pc' = "idle"
    /\ all_results' = <<>>
    /\ idx' = 1
    /\ seen' = {}
    /\ ignore_names' = {}
    /\ etype_cache' = EmptyMap
    /\ checked_event_types' = EmptyMap
    /\ podiums' = <<>>
    /\ new_ids' = {}
    /\ embed' = NoEmbed
    /\ cache0' = EmptyMap
    /\ window_passed' = {}
    /\ fetched' = EmptyMap
    /\ ledger0' = STATE_FILE
    /\ outcome' = "none"
    /\ UNCHANGED <<config, files, html, runs, now, io_ok, delivered, retry>>

Next ==
    \/ MainNoCookie
    \/ MainFetchFailed
    \/ MainFetchRaises
    \/ MainFetched
    \/ RowSkipped
    \/ RowKnownEvent
    \/ RowFetchedEvent
    \/ RowFetchRaises
    \/ FinishNoPost
    \/ FinishPostFailed
    \/ FinishPosted
    \/ Exit

Spec == Init /\ [][Next]_vars


\* ------------------------------------- parse_team_results, one row at a time
\* The documents parse_team_results is applied to on its own.
ParseRows ==
    [ntds : {3, 4}, pos : {0, 1}, dt_kind : {"none", "bad", "ok"},
     when : {100}, a_kind : {"none", "event", "other"},
     ev_name : {"Race One"}, href : {"events.php?zid=1"},
     has_profile : BOOLEAN, profile_text : {"", "Alice"}, cat : {"A"}]

InitParse ==
    /\ COOKIE = TRUE
    /\ ALWAYS_POST = FALSE
    /\ STATE_FILE = [exists |-> FALSE, ids |-> {}]
    /\ EVENT_TYPE_CACHE_FILE = EmptyMap
    /\ runs = 0
    /\ now = NowStart
    /\ pc = "parse"
    /\ outcome = "none"
    /\ all_results = <<>>
    /\ idx = 1
    /\ seen = {}
    /\ ignore_names = {}
    /\ etype_cache = EmptyMap
    /\ checked_event_types = EmptyMap
    /\ podiums = <<>>
    /\ new_ids = {}
    /\ embed = NoEmbed
    /\ html \in SeqsUpTo(ParseRows, MaxRows)
    /\ row_of = <<>>
    /\ ledger0 = STATE_FILE
    /\ cache0 = EmptyMap
    /\ window_passed = {}
    /\ fetched = EmptyMap
    /\ io_ok = TRUE
    /\ delivered = EmptyMap
    /\ retry = {}

ParseFrame ==
    UNCHANGED <<COOKIE, ALWAYS_POST, files, runs, now, outcome, seen,
                ignore_names, etype_cache, checked_event_types, podiums,
                new_ids, embed, html, ledger0, cache0, window_passed, fetched,
                io_ok, delivered, retry>>

\* one of the `continue` statements of the row loop is taken
ParseRowSkipped ==
    /\ pc = "parse"
    /\ idx <= Len(html)
    /\ ParseRow(html[idx]) = <<>>
    /\ idx' = idx + 1
    /\ UNCHANGED <<pc, all_results, row_of>>
    /\ ParseFrame

\* results.append(...)
ParseRowAppended ==
    /\ pc = "parse"
    /\ idx <= Len(html)
    /\ ParseRow(html[idx]) # <<>>
    /\ all_results' = all_results \o ParseRow(html[idx])
    /\ row_of' = Append(row_of, idx)
    /\ idx' = idx + 1
    /\ UNCHANGED pc
    /\ ParseFrame

\* return results
ParseReturns ==
    /\ pc = "parse"
    /\ idx > Len(html)
    /\ pc' = "parsed"
    /\ UNCHANGED <<all_results, row_of, idx>>
    /\ ParseFrame

NextParse ==
    \/ ParseRowSkipped
    \/ ParseRowAppended
    \/ ParseReturns

SpecParse == InitParse /\ [][NextParse]_vars


\* ================================================================== claims
Accepted == Range(podiums)

Processed == 1..(idx - 1)

AllowedToken(etype) ==
    /\ _normalize_event_type(etype) \in ALLOWED_EVENT_TYPES
    /\ _normalize_event_type(etype) \notin DENY_EVENT_TYPES
    /\ _normalize_event_type(etype) # "unknown"

ReachedDecision ==
    pc = "done" /\ outcome \in {"no_post", "post_failed", "posted"}

\* C1: as long as every ledger read and write has succeeded, no identity has
\* been in more than one delivered notification, and no run accepts a record
\* whose identity an earlier run delivered.
C1_ReportedAtMostOnce ==
    io_ok =>
      /\ \A u \in DOMAIN delivered : delivered[u] <= 1
      /\ pc = "loop" => \A r \in Accepted : Uid(r) \notin DOMAIN delivered

\* A later run meets a record it could post (on the page, passing window,
\* rank, ignore and category filters) whose identity was delivered before,
\* and leaves it out.
C1_Witness ==
    /\ io_ok
    /\ runs >= 2
    /\ ReachedDecision
    /\ \E i \in Processed :
         /\ PassesFirstFilters(all_results[i])
         /\ all_results[i].link \in DOMAIN checked_event_types
         /\ AllowedToken(checked_event_types[all_results[i].link])
         /\ Uid(all_results[i]) \in DOMAIN delivered
         /\ all_results[i] \notin Accepted

\* C2 as stated: a failed post leaves the ledger file as it was, and the
\* next run accepts every record of the failed run that is still on the page
\* and inside the window.
C2_AsStated ==
    /\ (pc = "done" /\ outcome = "post_failed") => STATE_FILE = ledger0
    /\ (pc = "loop" /\ idx > Len(all_results)) =>
          \A r \in retry :
             (r \in Range(all_results) /\ PassesWindow(r, now)) => r \in Accepted

\* C2 amended: a failed post leaves the ledger file as it was; in the next
\* run a record of the failed run that the loop has reached is accepted
\* again when it is inside the window, not on that run's ignore list, its
\* event classifies as an allowed type in that run and its identity is not
\* in the ledger file; and the ledger file holds no identity of the failed
\* run unless a ledger read or write has failed before.
C2_RetryAfterFailedPost ==
    /\ (pc = "done" /\ outcome = "post_failed") => STATE_FILE = ledger0
    /\ pc = "loop" =>
          \A i \in Processed :
             ( /\ all_results[i] \in retry
               /\ PassesWindow(all_results[i], now)
               /\ PassesIgnore(all_results[i], ignore_names)
               /\ all_results[i].link \in DOMAIN checked_event_types
               /\ AllowedToken(checked_event_types[all_results[i].link])
               /\ Uid(all_results[i]) \notin ledger0.ids )
             => all_results[i] \in Accepted
    /\ io_ok => \A r \in retry : Uid(r) \notin STATE_FILE.ids

\* The run after a failed post accepts a record of the failed run again.
C2_Witness ==
    /\ pc = "loop"
    /\ runs >= 2
    /\ \E i \in Processed :
         /\ all_results[i] \in retry
         /\ all_results[i] \in Accepted
         /\ Uid(all_results[i]) \in new_ids

\* C3: the identities in the ledger file after a run include those it held
\* before the run.
C3_LedgerGrows == pc = "done" => ledger0.ids \subseteq STATE_FILE.ids

\* C4: a record passes the window filter exactly when the Europe/Helsinki
\* calendar date of its instant lies in [today - 6 days, today], the range
\* of the notification title.
C4_WindowIsLocalDateRange ==
    pc \in {"loop", "done"} =>
      \A i \in Processed :
         (i \in window_passed) <=>
            LET title == build_discord_embed(<<>>, now) IN
            /\ title.week_start <= LocalDate(all_results[i].date)
            /\ LocalDate(all_results[i].date) <= title.week_end

\* C5: every event a run has sent a request for was missing from the cache,
\* was requested once, and has its token stored in the cache.
C5_FetchedOnceAndStored ==
    \A link \in DOMAIN fetched :
       /\ fetched[link] = 1
       /\ link \notin DOMAIN cache0
       /\ link \in DOMAIN etype_cache

\* C6: every accepted record, and so every identity the run adds to the
\* ledger, belongs to an event whose normalized classification token is in
\* ALLOWED_EVENT_TYPES, not in DENY_EVENT_TYPES and not "unknown".
C6_FailClosed ==
    /\ \A r \in Accepted :
         /\ r.link \in DOMAIN checked_event_types
         /\ r.link \in DOMAIN etype_cache
         /\ etype_cache[r.link] = checked_event_types[r.link]
         /\ AllowedToken(checked_event_types[r.link])
    /\ new_ids = {Uid(r) : r \in Accepted}
    /\ pc \in {"loop", "done"} => (STATE_FILE.ids \ ledger0.ids) \subseteq new_ids

\* A record passing window, rank, ignore and dedup filters is left out
\* because its event is "unknown" or of a denied type.
C6_Witness ==
    /\ pc \in {"loop", "done"}
    /\ \E i \in Processed, j \in Processed :
         /\ PassesFirstFilters(all_results[i])
         /\ ~AlreadySeen(Uid(all_results[i]), seen)
         /\ all_results[i].link \in DOMAIN checked_event_types
         /\ checked_event_types[all_results[i].link] \in DENY_EVENT_TYPES
         /\ all_results[i] \notin Accepted
         /\ PassesFirstFilters(all_results[j])
         /\ ~AlreadySeen(Uid(all_results[j]), seen)
         /\ all_results[j].link \in DOMAIN checked_event_types
         /\ checked_event_types[all_results[j].link] = "unknown"
         /\ all_results[j] \notin Accepted

\* C7: the ledger file changes only in a run that accepted records and whose
\* post succeeded; a run that accepted nothing leaves it as it was; and a
\* run that reaches the decision calls post_to_discord exactly when records
\* were accepted or ALWAYS_POST is set.
C7_LedgerOnlyOnCommit ==
    /\ pc \in {"loop", "done"} =>
         (STATE_FILE # ledger0 => (outcome = "posted" /\ podiums # <<>>))
    /\ ReachedDecision =>
         /\ (outcome \in {"post_failed", "posted"})
               <=> (podiums # <<>> \/ ALWAYS_POST)
         /\ outcome \in {"post_failed", "posted"} => embed.items = podiums
         /\ podiums = <<>> => STATE_FILE = ledger0

\* Empty+ForcedPost: nothing accepted, the "nothing found" notification is
\* posted, the ledger written by an earlier run is untouched.
C7_Witness ==
    /\ pc = "done"
    /\ outcome = "posted"
    /\ podiums = <<>>
    /\ ALWAYS_POST
    /\ ledger0.ids # {}
    /\ STATE_FILE = ledger0

\* C8: the accepted list holds at most one record per identity.
C8_OneRecordPerIdentity ==
    \A i \in DOMAIN podiums, j \in DOMAIN podiums :
       Uid(podiums[i]) = Uid(podiums[j]) => i = j

\* C9: a failed request for an event page never ends the run inside the loop.
C9_ClassifyFailureNeverAborts == outcome # "crashed_in_loop"

\* C10: every record parse_team_results returns comes from a row that holds
\* a link to an event and a link to a profile.
C10_RecordNeedsBothLinks ==
    \A k \in DOMAIN row_of :
       /\ html[row_of[k]].a_kind = "event"
       /\ html[row_of[k]].has_profile

====
